---- MODULE Spec2Model ----
(***************************************************************************)
(* The request / classify / render pipeline of MALWallFinder's page        *)
(* script.  The repository holds two variants of the script:               *)
(*   "static" : src/static/script.js                                       *)
(*   "root"   : src/unnamed/part_000                                       *)
(* Both are modelled; `variant` is fixed when the page loads.              *)
(*                                                                         *)
(* Strings that the code builds are sequences of tokens (a template        *)
(* literal `a ${x} b` is <<"a ", x, " b">>), so that "the message contains *)
(* the identifier" is a statement about tokens.                            *)
(***************************************************************************)
EXTENDS Integers, Sequences, FiniteSets, TLC

VARIABLES
    variant,   \* which script file the page runs
    value,     \* usernameInput.value
    dom,       \* the elements the script holds references to
    calls,     \* the activations of fetchWallpapers suspended at an await
    last       \* the latest submission: its identifier and, once it has
               \* finished, the transport outcome it finished with

vars == <<variant, value, dom, calls, last>>

----------------------------------------------------------------------------
(* Bounds *)

\* activations of fetchWallpapers that may be suspended at the same time
MaxCalls == 2
\* length of a group's wallpapers list
MaxItems == 2

----------------------------------------------------------------------------
(* Strings *)

Absent == "<undefined>"
LoneSurrogate == "<lone surrogate>"

\* what the user can have typed into the input
Inputs == {"", "   ", " bob ", LoneSurrogate}

\* String.prototype.trim on the inputs
trim(s) ==
    CASE s = "   " -> ""
      [] s = " bob " -> "bob"
      [] OTHER -> s

\* the texts an error body's `error` / `message` field can carry
ErrTexts == {"", "mal user not found", "Rate Limited by Wallhaven",
             "Internal error"}

\* the texts a 2xx body's `message` field can carry
InfoTexts == {"", "no completed anime"}

\* String.prototype.toLowerCase on one token
toLowerCaseTok(t) ==
    CASE t = "Rate Limited by Wallhaven" -> "rate limited by wallhaven"
      [] t = "Internal error" -> "internal error"
      [] t = "Error " -> "error "
      [] t = "Not Found" -> "not found"
      [] t = "Too Many Requests" -> "too many requests"
      [] t = "Internal Server Error" -> "internal server error"
      [] t = "Service Unavailable" -> "service unavailable"
      [] OTHER -> t

toLowerCase(msg) == [i \in DOMAIN msg |-> toLowerCaseTok(msg[i])]

\* String.prototype.includes for the two phrases the code searches for;
\* no phrase straddles two tokens of a message the code builds
tokIncludes(t, phrase) ==
    \/ t = phrase
    \/ phrase = "rate limited" /\ t = "rate limited by wallhaven"

includes(msg, phrase) == \E i \in DOMAIN msg : tokIncludes(msg[i], phrase)

\* JavaScript truthiness of a string-or-undefined field
truthy(t) == t # Absent /\ t # ""

----------------------------------------------------------------------------
(* Transport outcomes *)

Statuses == {200, 404, 429, 500, 503}

\* Response.ok
ok(status) == status >= 200 /\ status <= 299

\* Response.statusText: the reason phrase, empty over HTTP/2
reasonPhrase(status) ==
    CASE status = 200 -> "OK"
      [] status = 404 -> "Not Found"
      [] status = 429 -> "Too Many Requests"
      [] status = 500 -> "Internal Server Error"
      [] status = 503 -> "Service Unavailable"

StatusTexts(status) == {"", reasonPhrase(status)}

\* bodies of a non-2xx response, as response.json() delivers them:
\* a rejection, the value null, or an object with optional string fields
ErrorBodies ==
    {[parse |-> "fail", error |-> Absent, message |-> Absent],
     [parse |-> "null", error |-> Absent, message |-> Absent]}
    \cup [parse : {"object"},
          error : ErrTexts \cup {Absent},
          message : ErrTexts \cup {Absent}]

----------------------------------------------------------------------------
(* 2xx payloads *)

Titles == {"Akira", "Bleach"}

\* the values a wallpapers field can take: missing (or any falsy value), an
\* empty list, a truthy value that is no list (a non-empty string, a number,
\* an object), or a list of items: objects, or objects followed by a null
WpAbsent == [t |-> "absent", items |-> <<>>]
WpEmpty == [t |-> "empty", items |-> <<>>]
WpNotList == [t |-> "notlist", items |-> <<>>]
WpLists == {[t |-> "list", items |-> [i \in 1..n |-> IF i = n THEN e ELSE "item"]] :
              n \in 1..MaxItems, e \in {"item", "null"}}
WpValues == {WpAbsent, WpEmpty, WpNotList} \cup WpLists

\* the values found under a key of the payload: null, a string, or an object
\* with optional display_title, mal_cover and wallpapers
NullVal == [kind |-> "null", text |-> "", title |-> Absent, cover |-> FALSE,
            wp |-> WpAbsent]
StrVals == {[kind |-> "string", text |-> t, title |-> Absent, cover |-> FALSE,
             wp |-> WpAbsent] : t \in InfoTexts}
ObjVals == [kind : {"object"}, text : {""}, title : Titles \cup {Absent},
            cover : BOOLEAN, wp : WpValues]
GroupValues == {NullVal} \cup StrVals \cup ObjVals

\* the values under the key message when the payload has other keys too
MessageValues ==
    {NullVal} \cup StrVals
    \cup {[kind |-> "object", text |-> "", title |-> "Akira", cover |-> FALSE,
           wp |-> [t |-> "list", items |-> <<"item">>]]}

\* the values under the integer-like keys: groups with a title and a list of
\* wallpapers
WellFormedValues ==
    {v \in ObjVals : /\ v.title # Absent
                     /\ v.wp.t = "list"
                     /\ \A i \in DOMAIN v.wp.items : v.wp.items[i] = "item"}

\* the keys of a payload object in the order of the response text
KeyOrders == {<<>>, <<"message">>, <<"A">>, <<"A", "B">>, <<"message", "A">>,
              <<"2", "1">>}

Range(s) == {s[i] : i \in DOMAIN s}

NoVals == [k \in {} |-> NullVal]

\* what response.json() of a 2xx response settles with: a rejection
\* (unparseable), null, a falsy primitive (0, false, ""), or an object
Payloads ==
    {[kind |-> k, keys |-> <<>>, val |-> NoVals] :
        k \in {"unparseable", "null", "falsy"}}
    \cup UNION {{[kind |-> "object", keys |-> ko, val |-> f] :
                    f \in {g \in [Range(ko) -> GroupValues] :
                             /\ Len(ko) > 1 /\ "message" \in Range(ko)
                                  => g["message"] \in MessageValues
                             /\ \A k \in Range(ko) \cap {"1", "2"} :
                                  g[k] \in WellFormedValues}} :
                 ko \in KeyOrders}

\* Object.keys: integer-like keys in ascending numeric order, then the
\* other keys in insertion order
IntegerKeys == <<"1", "2">>
isIntegerKey(k) == k \in Range(IntegerKeys)
ObjectKeys(data) ==
    LET present(k) == k \in Range(data.keys)
        other(k) == ~isIntegerKey(k)
    IN SelectSeq(IntegerKeys, present) \o SelectSeq(data.keys, other)

\* String.prototype.localeCompare on the titles, as a rank; an undefined
\* argument is compared as the string "undefined"
localeRank(t) ==
    CASE t = "Akira" -> 1
      [] t = "Bleach" -> 2
      [] t = Absent -> 3

----------------------------------------------------------------------------
(* The page *)

NoFocus == "body"

DomInit ==
    [results |-> <<>>,
     errorDisplay |-> "", errorText |-> <<>>,
     infoDisplay |-> "", infoText |-> <<>>,
     loadingDisplay |-> "", loadingText |-> <<>>,
     buttonDisabled |-> FALSE, inputDisabled |-> FALSE,
     focus |-> NoFocus]

\* displayError with `infoDiv.style.display = 'none'` left out
displayErrorKeepsInfo(d, message) ==
    [d EXCEPT !.results = <<>>, !.errorText = message, !.errorDisplay = "block"]

\* displayError with `resultsDiv.innerHTML = ''` left out
displayErrorKeepsResults(d, message) ==
    [d EXCEPT !.infoDisplay = "none", !.errorText = message,
              !.errorDisplay = "block"]

\* displayError adding the message to the text the region already holds
displayErrorAppends(d, message) ==
    [d EXCEPT !.results = <<>>, !.infoDisplay = "none",
              !.errorText = d.errorText \o message, !.errorDisplay = "block"]

displayError(d, message) ==
    [d EXCEPT !.results = <<>>, !.infoDisplay = "none",
              !.errorText = message, !.errorDisplay = "block"]

displayInfo(d, message) ==
    [d EXCEPT !.results = <<>>, !.errorDisplay = "none",
              !.infoText = message, !.infoDisplay = "block"]

\* usernameInput.focus(): a disabled element does not take focus
focusInput(d) == IF d.inputDisabled THEN d ELSE [d EXCEPT !.focus = "input"]

\* the reset with `usernameInput.disabled = true` left out
resetUIInputEnabled(d) ==
    [d EXCEPT !.results = <<>>, !.errorDisplay = "none", !.infoDisplay = "none",
              !.loadingText = <<"Fetching data, this might take a moment...">>,
              !.loadingDisplay = "flex",
              !.buttonDisabled = TRUE,
              !.focus = IF d.focus = "button" THEN NoFocus ELSE d.focus]

\* the reset with `errorDiv.style.display = 'none'` left out
resetUIKeepsError(d) ==
    [d EXCEPT !.results = <<>>, !.infoDisplay = "none",
              !.loadingText = <<"Fetching data, this might take a moment...">>,
              !.loadingDisplay = "flex",
              !.buttonDisabled = TRUE, !.inputDisabled = TRUE,
              !.focus = NoFocus]

\* lines 30-36: the reset before the request; an element that is disabled
\* while it has focus loses it
resetUI(d) ==
    [d EXCEPT !.results = <<>>, !.errorDisplay = "none", !.infoDisplay = "none",
              !.loadingText = <<"Fetching data, this might take a moment...">>,
              !.loadingDisplay = "flex",
              !.buttonDisabled = TRUE, !.inputDisabled = TRUE,
              !.focus = NoFocus]

\* the catch block of fetchWallpapers
catchBlock(d, message) == displayError(d, <<"An error occurred: ">> \o message)

\* the finally block with `loadingDiv.style.display = 'none'` left out
finallyBlockKeepsLoading(v, d) ==
    focusInput([d EXCEPT !.buttonDisabled = FALSE, !.inputDisabled = FALSE])

\* the finally block focusing the input whatever is displayed
finallyBlockAlwaysFocuses(v, d) ==
    focusInput([d EXCEPT !.loadingDisplay = "none", !.buttonDisabled = FALSE,
                         !.inputDisabled = FALSE])

\* the finally block with `usernameInput.disabled = false` left out
finallyBlockButtonOnly(v, d) ==
    [d EXCEPT !.loadingDisplay = "none", !.buttonDisabled = FALSE]

\* the finally block of fetchWallpapers; part_000 focuses the input only
\* when the error region is not displayed
finallyBlock(v, d) ==
    LET e == [d EXCEPT !.loadingDisplay = "none", !.buttonDisabled = FALSE,
                       !.inputDisabled = FALSE]
    IN IF v = "static" THEN focusInput(e)
       ELSE IF e.errorDisplay = "" \/ e.errorDisplay = "none" THEN focusInput(e)
       ELSE e

----------------------------------------------------------------------------
(* Classification of a non-2xx response *)

defaultErrorMsg(status, statusText) ==
    <<"Error ", ToString(status), ": ", statusText>>

\* errorData.error || errorData.message, "" when neither is truthy or when
\* the body did not parse to an object (reading a field of null throws
\* inside the inner try)
detailedError(body) ==
    IF body.parse # "object" THEN ""
    ELSE IF truthy(body.error) THEN body.error
    ELSE IF truthy(body.message) THEN body.message
    ELSE ""

BusySuffix ==
    " The service might be busy or rate-limited. Please wait a moment and try again."

\* src/static/script.js lines 49-62
errorMsgStatic(status, statusText, body) ==
    LET isRateLimit == status = 429 \/ status = 503
        msg == IF detailedError(body) # "" THEN <<detailedError(body)>>
               ELSE defaultErrorMsg(status, statusText)
    IN IF isRateLimit THEN msg \o <<BusySuffix>> ELSE msg

UserNotFoundMsg(username) ==
    <<"MyAnimeList user '", username,
      "' not found or profile is private. Please check the username and MAL visibility settings.">>

BusyMsg(status) ==
    <<"The service is currently busy or rate-limited. Please wait a moment and try again. (",
      ToString(status), ")">>

\* part_000 lines 31-38 with `response.status === 503 ||` left out
errorMsgRootNo503(username, status, statusText, body) ==
    LET detailed == detailedError(body)
        msg == IF detailed # "" THEN <<detailed>>
               ELSE defaultErrorMsg(status, statusText)
    IN IF status = 404 /\ includes(toLowerCase(msg), "mal user not found")
       THEN UserNotFoundMsg(username)
       ELSE IF includes(toLowerCase(msg), "rate limited")
       THEN BusyMsg(status)
       ELSE IF detailed = ""
       THEN msg \o <<". Please check the logs or try again later.">>
       ELSE msg

\* src/unnamed/part_000 lines 31-38
errorMsgRoot(username, status, statusText, body) ==
    LET detailed == detailedError(body)
        msg == IF detailed # "" THEN <<detailed>>
               ELSE defaultErrorMsg(status, statusText)
    IN IF status = 404 /\ includes(toLowerCase(msg), "mal user not found")
       THEN UserNotFoundMsg(username)
       ELSE IF status = 503 \/ includes(toLowerCase(msg), "rate limited")
       THEN BusyMsg(status)
       ELSE IF detailed = ""
       THEN msg \o <<". Please check the logs or try again later.">>
       ELSE msg

errorMsg(v, username, status, statusText, body) ==
    IF v = "static" THEN errorMsgStatic(status, statusText, body)
    ELSE errorMsgRoot(username, status, statusText, body)

----------------------------------------------------------------------------
(* displayResults *)

\* data[k].display_title
titleOf(data, k) == data.val[k].title

\* the comparator of the sort: negative, zero or positive
compareTitles(data, a, b) ==
    localeRank(titleOf(data, a)) - localeRank(titleOf(data, b))

\* the comparator throws a TypeError when data[a] or data[b] is null, and
\* when data[a].display_title is undefined.  With two or more keys every key
\* is compared at least once; which of two keys is passed as `a` is the
\* engine's choice (asFirst: a key without display_title is passed as `a`)
sortThrows(data, keys, asFirst) ==
    /\ Len(keys) >= 2
    /\ \/ \E i \in DOMAIN keys : data.val[keys[i]].kind = "null"
       \/ \A i \in DOMAIN keys : titleOf(data, keys[i]) = Absent
       \/ asFirst /\ \E i \in DOMAIN keys : titleOf(data, keys[i]) = Absent

\* an unstable insertion: a key goes in front of the keys it compares equal to
insertKeyBeforeEqual(data, sorted, k) ==
    LET before == {i \in DOMAIN sorted : compareTitles(data, sorted[i], k) < 0}
        n == IF before = {} THEN 0
             ELSE CHOOSE i \in before : \A j \in before : j <= i
    IN SubSeq(sorted, 1, n) \o <<k>> \o SubSeq(sorted, n + 1, Len(sorted))

\* Array.prototype.sort is stable: a key goes behind the keys that do not
\* compare greater than it
insertKey(data, sorted, k) ==
    LET before == {i \in DOMAIN sorted : compareTitles(data, sorted[i], k) <= 0}
        n == IF before = {} THEN 0
             ELSE CHOOSE i \in before : \A j \in before : j <= i
    IN SubSeq(sorted, 1, n) \o <<k>> \o SubSeq(sorted, n + 1, Len(sorted))

RECURSIVE sortKeys(_, _, _)
sortKeys(data, keys, sorted) ==
    IF keys = <<>> THEN sorted
    ELSE sortKeys(data, Tail(keys), insertKey(data, sorted, Head(keys)))

\* line 114 with `animeData.wallpapers.length === 0` left out
skippedNoLengthCheck(animeData) ==
    \/ animeData.kind # "object"
    \/ animeData.wp.t = "absent"

\* line 114: the groups forEach returns early on
skipped(animeData) ==
    \/ animeData.kind # "object"
    \/ animeData.wp.t = "absent"
    \/ animeData.wp.t = "empty"

\* lines 139-153: forEach of a value that is no list, or reading .full of a
\* null item, throws before the group is appended
gridThrows(animeData) ==
    \/ animeData.wp.t = "notlist"
    \/ \E i \in DOMAIN animeData.wp.items : animeData.wp.items[i] = "null"

\* the element appended for one group: header (cover optional, title) and
\* one link per wallpaper
animeGroupDiv(animeData) ==
    [title |-> animeData.title,
     cover |-> animeData.cover, coverHidden |-> FALSE, coverFailed |-> FALSE,
     links |-> [i \in DOMAIN animeData.wp.items |->
                  [hidden |-> FALSE, failed |-> FALSE]]]

\* the error event of the thumbnail of link i of group g: part_000 line 78
\* hides the link; src/static/script.js sets no handler
imgOnError(v, d, g, i) ==
    IF v = "static"
    THEN [d EXCEPT !.results[g].links[i].failed = TRUE]
    ELSE [d EXCEPT !.results[g].links[i].failed = TRUE,
                   !.results[g].links[i].hidden = TRUE]

\* the error event of the cover of group g: part_000 line 69 hides the
\* cover; src/static/script.js sets no handler
coverOnError(v, d, g) ==
    IF v = "static"
    THEN [d EXCEPT !.results[g].coverFailed = TRUE]
    ELSE [d EXCEPT !.results[g].coverFailed = TRUE,
                   !.results[g].coverHidden = TRUE]

RECURSIVE renderGroups(_, _, _)
renderGroups(data, keys, appended) ==
    IF keys = <<>> THEN [threw |-> FALSE, results |-> appended]
    ELSE LET animeData == data.val[Head(keys)]
         IN IF skipped(animeData)
            THEN renderGroups(data, Tail(keys), appended)
            ELSE IF gridThrows(animeData)
            THEN [threw |-> TRUE, results |-> appended]
            ELSE renderGroups(data, Tail(keys),
                              Append(appended, animeGroupDiv(animeData)))

displayResults(d, data, asFirst) ==
    LET cleared == [d EXCEPT !.results = <<>>, !.errorDisplay = "none",
                             !.infoDisplay = "none"]
        keys == ObjectKeys(data)
        sortedKeys == sortKeys(data, keys, <<>>)
        r == renderGroups(data, sortedKeys, <<>>)
    IN IF sortThrows(data, keys, asFirst)
       THEN [threw |-> TRUE, dom |-> cleared]
       ELSE IF Len(sortedKeys) = 0
       THEN [threw |-> FALSE, dom |-> displayInfo(cleared, <<"No results to display.">>)]
       ELSE [threw |-> r.threw, dom |-> [cleared EXCEPT !.results = r.results]]

----------------------------------------------------------------------------
(* fetchWallpapers *)

NotFoundInfo(v, username) ==
    IF v = "static"
    THEN <<"Could not find any wallpapers for ", username,
           "'s completed list on Wallhaven.">>
    ELSE <<"Could not find any relevant wallpapers for ", username,
           "'s completed list on Wallhaven.">>

\* data.message, as a truthy test and as the text displayInfo shows
messageOf(data) ==
    IF "message" \in Range(data.keys) THEN data.val["message"] ELSE NullVal
messageTruthy(data) ==
    \/ messageOf(data).kind = "object"
    \/ messageOf(data).kind = "string" /\ messageOf(data).text # ""
messageText(data) ==
    IF messageOf(data).kind = "string" THEN <<messageOf(data).text>>
    ELSE <<"[object Object]">>

\* the try block from `await response.json()` of a 2xx response on, with
\* the catch block: the page before the finally block runs
processData(v, d, username, data, asFirst) ==
    CASE data.kind = "unparseable" -> catchBlock(d, <<"Unexpected token in JSON">>)
      [] data.kind = "null" -> catchBlock(d, <<"Cannot read properties of null">>)
      [] data.kind = "falsy" -> displayInfo(d, NotFoundInfo(v, username))
      [] OTHER ->
           IF messageTruthy(data) /\ Len(ObjectKeys(data)) = 1
           THEN displayInfo(d, messageText(data))
           ELSE IF Len(ObjectKeys(data)) = 0
           THEN displayInfo(d, NotFoundInfo(v, username))
           ELSE LET r == displayResults(d, data, asFirst)
                IN IF r.threw
                   THEN catchBlock(r.dom, <<"TypeError">>)
                   ELSE r.dom

\* encodeURIComponent throws a URIError on a lone surrogate
encodeThrows(username) == username = LoneSurrogate

\* the blank-identifier return of fetchWallpapers
rejectBlank(v, d) ==
    LET e == displayError(d, <<"Please enter a MAL username.">>)
    IN IF v = "static" THEN e ELSE focusInput(e)

----------------------------------------------------------------------------
(* The record of the latest submission *)

NoErrBody == [parse |-> "none", error |-> Absent, message |-> Absent]

\* the shape of a 2xx payload
\* a group with a title and a list of one or more wallpapers
wellFormedGroup(g) ==
    /\ g.kind = "object"
    /\ g.title # Absent
    /\ g.wp.t = "list"
    /\ \A i \in DOMAIN g.wp.items : g.wp.items[i] = "item"

\* a group that has no display_title or no wallpapers field and is well
\* formed in what it has
lackingGroup(g) ==
    /\ g.kind = "object"
    /\ g.title = Absent \/ g.wp.t = "absent"
    /\ g.wp.t \in {"absent", "list"}
    /\ \A i \in DOMAIN g.wp.items : g.wp.items[i] = "item"

\* several groups: some well formed, the others lacking a field
someLacking(data) ==
    /\ Len(data.keys) > 1
    /\ "message" \notin Range(data.keys)
    /\ \A k \in Range(data.keys) :
          wellFormedGroup(data.val[k]) \/ lackingGroup(data.val[k])
    /\ \E k \in Range(data.keys) : wellFormedGroup(data.val[k])
    /\ \E k \in Range(data.keys) : lackingGroup(data.val[k])

shapeOf(data) ==
    CASE data.kind # "object" -> data.kind
      [] data.kind = "object" /\ data.keys = <<>> -> "empty"
      [] data.kind = "object" /\ data.keys = <<"message">> ->
           (CASE messageOf(data).kind = "null" -> "message-null"
              [] messageOf(data).kind = "object" -> "message-object"
              [] messageOf(data).kind = "string" /\ messageOf(data).text = "" ->
                   "message-empty"
              [] OTHER -> "message")
      [] OTHER ->
           IF \A k \in Range(data.keys) :
                 /\ data.val[k].kind = "object"
                 /\ data.val[k].title # Absent
                 /\ data.val[k].wp.t = "empty"
           THEN "all-empty-groups"
           ELSE IF someLacking(data) THEN "some-lacking"
           ELSE "mapping"

\* the payload holds a group object whose wallpapers are missing or empty
hasEmptyGroup(data) ==
    \E k \in Range(data.keys) :
        /\ data.val[k].kind = "object"
        /\ data.val[k].wp.t \in {"absent", "empty"}

\* what of a page is visible: the regions shown, their messages, the groups
Surface(d) ==
    [loading |-> d.loadingDisplay = "flex",
     error |-> d.errorDisplay = "block",
     errorText |-> IF d.errorDisplay = "block" THEN d.errorText ELSE <<>>,
     info |-> d.infoDisplay = "block",
     infoText |-> IF d.infoDisplay = "block" THEN d.infoText ELSE <<>>,
     results |-> d.results]

\* the groups of the payload that line 114 does not skip, as elements, in
\* the order given
elementsIn(data, order) ==
    LET kept(k) == ~skipped(data.val[k])
        ks == SelectSeq(order, kept)
    IN [i \in DOMAIN ks |-> animeGroupDiv(data.val[ks[i]])]

\* eligible, textual: when two rendered groups have the same title, the
\* elements of the payload in Object.keys order and in the order of the
\* response text;
\* fresh: the surface the same submission and outcome give on a page that
\* has just been loaded; partial: displayResults threw after it had
\* appended a group
Outcome(kind, username, status, body, shape, text, dropped) ==
    [kind |-> kind, username |-> username, status |-> status,
     errBody |-> body, shape |-> shape, text |-> text, dropped |-> dropped,
     eligible |-> <<>>, textual |-> <<>>, fresh |-> Surface(DomInit),
     partial |-> FALSE]

Finished(kind, username) == Outcome(kind, username, 0, NoErrBody, "", "", FALSE)

NoneYet == Finished("none", "")

----------------------------------------------------------------------------
(* Actions *)

Init ==
    /\ variant \in {"static", "root"}
    /\ value = ""
    /\ dom = DomInit
    /\ calls = <<>>
    /\ last = NoneYet

\* the whole synchronous part of fetchWallpapers, up to `await fetch(apiUrl)`
Submit(d) ==
    LET username == trim(value)
    IN /\ Len(calls) < MaxCalls
       /\ IF username = ""
          THEN /\ dom' = rejectBlank(variant, d)
               /\ calls' = calls
               /\ last' = Finished("blank", username)
          ELSE IF encodeThrows(username)
          THEN /\ dom' = finallyBlock(variant,
                             catchBlock(resetUI(d), <<"URI malformed">>))
               /\ calls' = calls
               /\ last' = Finished("uri", username)
          ELSE /\ dom' = resetUI(d)
               /\ calls' = Append(calls, [pc |-> "fetch", username |-> username,
                                          status |-> 0])
               /\ last' = Finished("pending", username)
       /\ UNCHANGED <<variant, value>>

\* the user edits the input; a disabled input cannot be edited
Type ==
    /\ ~dom.inputDisabled
    /\ \E s \in Inputs \ {value} : value' = s
    /\ dom' = [dom EXCEPT !.focus = "input"]
    /\ UNCHANGED <<variant, calls, last>>

\* a click on the button; a disabled button dispatches no click event
Click ==
    /\ ~dom.buttonDisabled
    /\ Submit([dom EXCEPT !.focus = "button"])

\* Enter in the input; a disabled input receives no key event
PressEnter ==
    /\ ~dom.inputDisabled
    /\ Submit([dom EXCEPT !.focus = "input"])

Remove(seq, i) == SubSeq(seq, 1, i - 1) \o SubSeq(seq, i + 1, Len(seq))

\* fetch rejects: no response was received
FetchRejects ==
    \E i \in DOMAIN calls :
        /\ calls[i].pc = "fetch"
        /\ dom' = finallyBlock(variant, catchBlock(dom, <<"Failed to fetch">>))
        /\ calls' = Remove(calls, i)
        /\ last' = [Finished("reject", calls[i].username)
                       EXCEPT !.fresh = Surface(finallyBlock(variant,
                                  catchBlock(resetUI(DomInit), <<"Failed to fetch">>)))]
        /\ UNCHANGED <<variant, value>>

\* fetch resolves with a response; the activation awaits response.json()
FetchResolves ==
    \E i \in DOMAIN calls, status \in Statuses :
        /\ calls[i].pc = "fetch"
        /\ calls' = [calls EXCEPT ![i] = [@ EXCEPT !.pc = "json",
                                                  !.status = status]]
        /\ UNCHANGED <<variant, value, dom, last>>

\* an error response answered by asking again: the activation goes back to
\* `await fetch(apiUrl)` and nothing is displayed
ErrorBodySettlesRetrying(bodies) ==
    \E i \in DOMAIN calls, body \in bodies :
        /\ calls[i].pc = "json"
        /\ ~ok(calls[i].status)
        /\ calls' = [calls EXCEPT ![i] = [@ EXCEPT !.pc = "fetch", !.status = 0]]
        /\ UNCHANGED <<variant, value, dom, last>>

\* response.json() of a non-2xx response settles: the error is thrown,
\* caught and displayed (response.statusText is read when the message is
\* built)
ErrorBodySettlesFrom(bodies) ==
    \E i \in DOMAIN calls, body \in bodies :
        LET c == calls[i]
        IN /\ c.pc = "json"
           /\ ~ok(c.status)
           /\ \E statusText \in StatusTexts(c.status) :
                 /\ dom' = finallyBlock(variant,
                             catchBlock(dom, errorMsg(variant, c.username, c.status,
                                                      statusText, body)))
                 /\ last' = [Outcome("error", c.username, c.status, body, "", "",
                                     FALSE)
                                EXCEPT !.fresh = Surface(finallyBlock(variant,
                                   catchBlock(resetUI(DomInit),
                                              errorMsg(variant, c.username, c.status,
                                                       statusText, body))))]
           /\ calls' = Remove(calls, i)
           /\ UNCHANGED <<variant, value>>

ErrorBodySettles == ErrorBodySettlesFrom(ErrorBodies)

\* the payload reaches displayResults
reachesDisplayResults(data) ==
    /\ data.kind = "object"
    /\ ~(messageTruthy(data) /\ Len(ObjectKeys(data)) = 1)
    /\ Len(ObjectKeys(data)) # 0

\* displayResults rendered two groups that have the same title
renderedTie(data, asFirst) ==
    /\ reachesDisplayResults(data)
    /\ LET r == displayResults(DomInit, data, asFirst)
       IN /\ ~r.threw
          /\ \E i, j \in DOMAIN r.dom.results :
                i # j /\ r.dom.results[i].title = r.dom.results[j].title

\* displayResults threw after it had appended a group
partiallyRendered(data, asFirst) ==
    /\ reachesDisplayResults(data)
    /\ ~sortThrows(data, ObjectKeys(data), asFirst)
    /\ LET r == renderGroups(data, sortKeys(data, ObjectKeys(data), <<>>), <<>>)
       IN r.threw /\ r.results # <<>>

\* the record of a submission that finished with a 2xx response
okOutcome(v, username, status, data, asFirst) ==
    [Outcome("ok", username, status, NoErrBody, shapeOf(data),
             messageOf(data).text, hasEmptyGroup(data))
       EXCEPT !.eligible = IF renderedTie(data, asFirst)
                           THEN elementsIn(data, ObjectKeys(data))
                           ELSE <<>>,
              !.textual = IF renderedTie(data, asFirst)
                          THEN elementsIn(data, data.keys)
                          ELSE <<>>,
              !.fresh = Surface(finallyBlock(v,
                           processData(v, resetUI(DomInit), username, data,
                                       asFirst))),
              !.partial = partiallyRendered(data, asFirst)]

\* the engine's choice matters only when some key has no display_title
EngineChoices(data) ==
    IF \E k \in Range(data.keys) : titleOf(data, k) = Absent
    THEN BOOLEAN ELSE {FALSE}

\* response.json() of a 2xx response settles
BodySettlesFrom(payloads) ==
    \E i \in DOMAIN calls, data \in payloads :
      \E asFirst \in EngineChoices(data) :
        LET c == calls[i]
        IN /\ c.pc = "json"
           /\ ok(c.status)
           /\ dom' = finallyBlock(variant,
                        processData(variant, dom, c.username, data, asFirst))
           /\ calls' = Remove(calls, i)
           /\ last' = okOutcome(variant, c.username, c.status, data, asFirst)
           /\ UNCHANGED <<variant, value>>

BodySettles == BodySettlesFrom(Payloads)

Next ==
    \/ Type
    \/ Click
    \/ PressEnter
    \/ FetchRejects
    \/ FetchResolves
    \/ ErrorBodySettles
    \/ BodySettles

Spec == Init /\ [][Next]_vars

----------------------------------------------------------------------------
(* The same page with fewer response bodies, and a transport that settles *)

\* error bodies without a message field; payloads with at most the key
\* message or the key A: one for each path through the 2xx branch
FairErrorBodies == {b \in ErrorBodies : b.message = Absent}
FairPayloads == {p \in Payloads : p.keys \in {<<>>, <<"message">>, <<"A">>}}

ErrorBodySettlesFair == ErrorBodySettlesFrom(FairErrorBodies)
BodySettlesFair == BodySettlesFrom(FairPayloads)

NextFair ==
    \/ Type
    \/ Click
    \/ PressEnter
    \/ FetchRejects
    \/ FetchResolves
    \/ ErrorBodySettlesFair
    \/ BodySettlesFair

\* the transport settles every promise it has handed out: a pending fetch
\* resolves or rejects, and a pending response.json() settles
FairSpec ==
    /\ Init
    /\ [][NextFair]_vars
    /\ WF_vars(FetchRejects \/ FetchResolves)
    /\ WF_vars(ErrorBodySettlesFair \/ BodySettlesFair)

----------------------------------------------------------------------------
(* Image failures on a page that shows results *)

\* the pages a submission of "bob" leaves with results, on a page that has
\* just been loaded
InitImages ==
    /\ variant \in {"static", "root"}
    /\ value = " bob "
    /\ calls = <<>>
    /\ \E data \in Payloads :
         \E asFirst \in EngineChoices(data) :
            /\ dom = finallyBlock(variant,
                        processData(variant, resetUI(DomInit), "bob", data,
                                    asFirst))
            /\ dom.results # <<>>
            /\ last = okOutcome(variant, "bob", 200, data, asFirst)

\* a thumbnail fails to load
ThumbError ==
    \E g \in DOMAIN dom.results :
        \E i \in DOMAIN dom.results[g].links :
            /\ ~dom.results[g].links[i].failed
            /\ dom' = imgOnError(variant, dom, g, i)
            /\ UNCHANGED <<variant, value, calls, last>>

\* a cover image fails to load
CoverError ==
    \E g \in DOMAIN dom.results :
        /\ dom.results[g].cover
        /\ ~dom.results[g].coverFailed
        /\ dom' = coverOnError(variant, dom, g)
        /\ UNCHANGED <<variant, value, calls, last>>

NextImages ==
    \/ ThumbError
    \/ CoverError

SpecImages == InitImages /\ [][NextImages]_vars

----------------------------------------------------------------------------
(* The UI states of the specification, read off the page *)

Loading == dom.loadingDisplay = "flex"
ErrorVisible == dom.errorDisplay = "block"
InfoVisible == dom.infoDisplay = "block"
ResultsVisible == dom.results # <<>>

ShowingError == ~Loading /\ ErrorVisible /\ ~InfoVisible /\ ~ResultsVisible
ShowingInfo == ~Loading /\ InfoVisible /\ ~ErrorVisible /\ ~ResultsVisible
ShowingResults == ~Loading /\ ResultsVisible /\ ~ErrorVisible /\ ~InfoVisible

\* the latest submission issued a request and the request has finished
RequestFinished == last.kind \in {"reject", "error", "ok"}

\* the error message carries the busy / rate-limited, retry-shortly notice
ThrottledShown ==
    /\ ShowingError
    /\ \E i \in DOMAIN dom.errorText :
          dom.errorText[i] \in {BusySuffix, BusyMsg(last.status)[1]}

----------------------------------------------------------------------------
(* Claims *)

\* C1: single-flight.  In every reachable state at most one activation of
\* fetchWallpapers is suspended on the network, and while one is, the button
\* and the input are both disabled.
C1_SingleFlight ==
    /\ Len(calls) <= 1
    /\ calls # <<>> => dom.buttonDisabled /\ dom.inputDisabled

\* a request is outstanding, its response headers have arrived and the body
\* is still awaited
C1_Witness ==
    /\ Len(calls) = 1
    /\ calls[1].pc = "json"
    /\ dom.buttonDisabled /\ dom.inputDisabled

\* C2: after a submission of a blank identifier no request is outstanding,
\* the page is not loading, it shows the validation message as its only
\* content, and both controls are enabled.
C2_BlankRejected ==
    last.kind = "blank" =>
        /\ calls = <<>>
        /\ ShowingError
        /\ dom.errorText = <<"Please enter a MAL username.">>
        /\ ~dom.buttonDisabled /\ ~dom.inputDisabled

\* a blank identifier submitted on a page that had shown an info message
C2_Witness ==
    /\ last.kind = "blank"
    /\ last.username = ""
    /\ ShowingError
    /\ dom.infoText # <<>>

\* C3: the button and the input are disabled exactly while the loading
\* indicator is shown.
C3_EnabledIffNotLoading ==
    /\ dom.buttonDisabled <=> Loading
    /\ dom.inputDisabled <=> Loading

\* a re-submission after an error: loading, with both controls disabled
C3_Witness ==
    /\ Loading
    /\ dom.buttonDisabled /\ dom.inputDisabled
    /\ dom.errorText # <<>>

\* C4: while a request is outstanding the page is loading with results,
\* error and info cleared, and once the request has finished the page is in
\* exactly one of ShowingResults, ShowingError, ShowingInfo.
C4_ExactlyOneTerminal ==
    /\ calls # <<>> =>
          Loading /\ ~ErrorVisible /\ ~InfoVisible /\ ~ResultsVisible
    /\ RequestFinished => ShowingResults \/ ShowingError \/ ShowingInfo

\* C5: a success payload whose groups all have an empty wallpapers list
\* leaves the page in ShowingInfo.
C5_AllEmptyIsInfo ==
    last.kind = "ok" /\ last.shape = "all-empty-groups" => ShowingInfo

\* C6: every group in the results region has at least one item link.
C6_NoEmptyGroupRendered ==
    \A i \in DOMAIN dom.results : Len(dom.results[i].links) >= 1

\* a payload with a group without wallpapers and a group with wallpapers has
\* been rendered: one group is in the results region
C6_Witness ==
    /\ last.kind = "ok"
    /\ last.dropped
    /\ Len(dom.results) = 1

\* C7: a 404 whose body is {"error": "mal user not found"} ends in
\* ShowingError with the user-not-found message, which contains the trimmed
\* identifier that was submitted.
C7_UserNotFound ==
    /\ last.kind = "error"
    /\ last.status = 404
    /\ last.errBody = [parse |-> "object", error |-> "mal user not found",
                       message |-> Absent]
    => /\ ShowingError
       /\ dom.errorText = <<"An error occurred: ">> \o UserNotFoundMsg(last.username)
       /\ \E i \in DOMAIN dom.errorText : dom.errorText[i] = last.username

\* C8: a 503 ends in ShowingError with the busy / rate-limited notice,
\* whatever the body: unparseable, null, or an object with or without error
\* and message fields.
C8_Throttled503 ==
    last.kind = "error" /\ last.status = 503 => ThrottledShown

\* a 503 whose body did not parse has been displayed
C8_Witness ==
    /\ last.kind = "error"
    /\ last.status = 503
    /\ last.errBody.parse = "fail"
    /\ ThrottledShown

\* C9: a 429 ends in ShowingError with the busy / rate-limited notice,
\* whatever the body, as a 503 does.
C9_Throttled429 ==
    last.kind = "error" /\ last.status = 429 => ThrottledShown

\* C10: a 2xx payload that is an object with the single key message, whose
\* value is a string, ends in ShowingInfo showing exactly that string.
C10_SingleMessageIsInfo ==
    last.kind = "ok" /\ last.shape \in {"message", "message-empty"} =>
        ShowingInfo /\ dom.infoText = <<last.text>>

\* what identifies a rendered group: its title, whether it has a cover, and
\* the number of its links
Ident(g) == <<g.title, g.cover, Len(g.links)>>
Idents(groups) == [i \in DOMAIN groups |-> Ident(groups[i])]

\* the first position of an identity in a sequence of groups
Pos(groups, id) ==
    CHOOSE i \in DOMAIN groups :
        /\ Ident(groups[i]) = id
        /\ \A j \in DOMAIN groups : Ident(groups[j]) = id => i <= j

\* the rendered groups are in non-decreasing order of title
TitlesAscend ==
    \A i, j \in DOMAIN dom.results :
        i < j => localeRank(dom.results[i].title) <= localeRank(dom.results[j].title)

\* rendered groups with equal titles are in the order they have in `order`
TiesFollow(order) ==
    \A i, j \in DOMAIN dom.results :
        /\ i < j
        /\ dom.results[i].title = dom.results[j].title
        /\ Ident(dom.results[i]) # Ident(dom.results[j])
        => Pos(order, Ident(dom.results[i])) < Pos(order, Ident(dom.results[j]))

\* C11 (as claimed): the rendered groups are in non-decreasing order of
\* display_title, groups with equal titles keep the order of the keys in the
\* payload as it was sent, and the sequence equals the one the same payload
\* gives on a freshly loaded page.
C11_SortedStableAsSent ==
    last.kind = "ok" /\ ResultsVisible =>
        /\ TitlesAscend
        /\ TiesFollow(last.textual)
        /\ Idents(dom.results) = Idents(last.fresh.results)

\* C11 (amended): the rendered groups are in non-decreasing order of
\* display_title, groups with equal titles keep the order in which
\* Object.keys enumerates the payload (integer-like keys first, ascending,
\* then the other keys as sent), and the sequence equals the one the same
\* payload gives on a freshly loaded page.
C11_SortedStable ==
    last.kind = "ok" /\ ResultsVisible =>
        /\ TitlesAscend
        /\ TiesFollow(last.eligible)
        /\ Idents(dom.results) = Idents(last.fresh.results)

\* two groups with the same title under the keys "2" and "1" were rendered
C11_Witness ==
    /\ last.kind = "ok"
    /\ Len(dom.results) = 2
    /\ dom.results[1].title = dom.results[2].title
    /\ Ident(dom.results[1]) # Ident(dom.results[2])
    /\ last.textual # last.eligible

\* C12: on a page that shows results, a link is hidden exactly when its
\* thumbnail has failed to load and a cover is hidden exactly when it has
\* failed to load; whatever has failed, the page stays in ShowingResults.
C12_OnlyFailedHidden ==
    /\ ShowingResults
    /\ \A g \in DOMAIN dom.results :
          /\ dom.results[g].coverHidden <=> dom.results[g].coverFailed
          /\ \A i \in DOMAIN dom.results[g].links :
                dom.results[g].links[i].hidden <=> dom.results[g].links[i].failed

----------------------------------------------------------------------------
\* C13: at every moment at most one of the loading indicator, the error
\* region, the info region and the results is visible: any two of them are
\* never visible together.
C13_AtMostOneVisible ==
    /\ ~(Loading /\ ErrorVisible)
    /\ ~(Loading /\ InfoVisible)
    /\ ~(Loading /\ ResultsVisible)
    /\ ~(ErrorVisible /\ InfoVisible)
    /\ ~(ErrorVisible /\ ResultsVisible)
    /\ ~(InfoVisible /\ ResultsVisible)

\* the loading indicator is the only thing visible on a page that has shown
\* an error and an info message before
C13_Witness ==
    /\ Loading
    /\ dom.errorText # <<>>
    /\ dom.infoText # <<>>

----------------------------------------------------------------------------
\* C14: once a request has completed, what is visible (the region shown, its
\* message, the rendered groups) is what the same identifier and the same
\* transport outcome give on a page that has just been loaded, whatever the
\* page showed before; so the same submission with the same outcome gives
\* the same surface every time.
C14_HistoryIndependent ==
    RequestFinished => Surface(dom) = last.fresh

\* results are shown on a page that has shown an error and an info message
\* before
C14_Witness ==
    /\ RequestFinished
    /\ ShowingResults
    /\ dom.errorText # <<>>
    /\ dom.infoText # <<>>

----------------------------------------------------------------------------
\* C15: when the transport settles what it has started, a page that shows
\* the loading indicator comes to a state where the indicator is hidden and
\* the button and the input are enabled.
C15_LoadingEnds ==
    Loading ~> (~Loading /\ ~dom.buttonDisabled /\ ~dom.inputDisabled)

\* a request has completed on each kind of path and the page is usable
C15_Witness ==
    /\ RequestFinished
    /\ ~Loading
    /\ ~dom.buttonDisabled
    /\ ~dom.inputDisabled
    /\ dom.loadingText # <<>>

----------------------------------------------------------------------------
\* C16: when a 2xx payload holds several groups, some well formed and the
\* others without display_title or without wallpapers, the page ends in
\* ShowingResults and shows no group that has no title.
C16_LackingGroupSkipped ==
    last.kind = "ok" /\ last.shape = "some-lacking" =>
        /\ ShowingResults
        /\ \A i \in DOMAIN dom.results : dom.results[i].title # Absent

----------------------------------------------------------------------------
\* C17: a 2xx response whose body cannot be parsed, is null or a primitive,
\* or is an object whose only key message holds null or the empty string,
\* ends in ShowingError.
C17_MalformedIsError ==
    last.kind = "ok"
    /\ last.shape \in {"unparseable", "null", "falsy", "message-null",
                       "message-empty"}
    => ShowingError

----------------------------------------------------------------------------
\* a step in which a request completes
RequestCompletes == Len(calls') < Len(calls)

\* C18 as stated: when a request completes, the input has focus afterwards
\* if and only if no error is displayed.
C18_FocusIffNotError ==
    [][RequestCompletes => (dom'.focus = "input" <=> ~ErrorVisible')]_vars

\* C18: when a request completes, part_000 leaves the input focused if and
\* only if no error is displayed; src/static/script.js leaves the input
\* focused after every completion.
C18_FocusByVariant ==
    [][RequestCompletes =>
         IF variant = "static"
         THEN dom'.focus = "input"
         ELSE (dom'.focus = "input" <=> ~ErrorVisible')]_vars

\* part_000 has shown an error and the focus is where the reset left it
C18_Witness ==
    /\ variant = "root"
    /\ RequestFinished
    /\ ShowingError
    /\ dom.focus = NoFocus

----------------------------------------------------------------------------
\* a fetch is pending
InFetch == \E i \in DOMAIN calls : calls[i].pc = "fetch"

\* a step in which fetch is called
RequestIssued == ~InFetch /\ InFetch'

\* a step in which the user submits an identifier that is not blank
NonBlankSubmission == (Click \/ PressEnter) /\ trim(value) # ""

\* C19 as stated: fetch is called in exactly the steps in which the user
\* submits a non-blank identifier, so the requests issued are as many as the
\* non-blank submissions and no outcome causes a request by itself.
C19_RequestPerNonBlankSubmission ==
    [][RequestIssued <=> NonBlankSubmission]_vars

\* C19: fetch is called in exactly the steps in which the user submits a
\* non-blank identifier that encodeURIComponent accepts; a non-blank
\* identifier it rejects ends in an error without a request, and no outcome
\* causes a request by itself.
C19_RequestPerEncodableSubmission ==
    [][RequestIssued <=> (NonBlankSubmission /\ ~encodeThrows(trim(value)))]_vars

\* a request has ended in an error, after an earlier one that ended in an
\* info message, and nothing is in flight
C19_Witness ==
    /\ last.kind \in {"reject", "error"}
    /\ ShowingError
    /\ calls = <<>>
    /\ dom.infoText # <<>>

----------------------------------------------------------------------------
\* C20: when displayResults throws after it has appended one or more groups,
\* the results region is empty afterwards and the page ends in ShowingError.
C20_AllOrNothing ==
    last.kind = "ok" /\ last.partial =>
        /\ dom.results = <<>>
        /\ ShowingError

\* displayResults threw after appending a group and the error is displayed
C20_Witness ==
    /\ last.kind = "ok"
    /\ last.partial
    /\ ErrorVisible
    /\ dom.errorText = <<"An error occurred: ", "TypeError">>

====
